---- MODULE Spec2Model ----
(***************************************************************************)
(* psc-lab: a CDKTF program that declares a Private Service Connect lab.   *)
(* The program is `new App(); new StackA(app, "lab"); app.synth()`.  The   *)
(* StackA constructor declares one provider and fifteen resources; some    *)
(* properties are back-references (x.name, x.id) to resources bound to     *)
(* local constants.  The repository holds two variants of the program:     *)
(* src/main.ts and src/unnamed/part_000.                                   *)
(*                                                                         *)
(* The model runs one variant statement by statement, declaration by       *)
(* declaration, hands the finished description over with synth, and then   *)
(* lets the external engine create the resources in any order in which a   *)
(* resource is created only after all resources it references.             *)
(***************************************************************************)
EXTENDS Integers, Sequences, FiniteSets, TLC

VARIABLES
    variant,      \* which source file runs: "main" (src/main.ts) or "part" (src/unnamed/part_000)
    ip,           \* index of the next top-level statement (MainStatements)
    pc,           \* position inside the StackA constructor: 0 = before super(), k = next declaration
    stackId,      \* the id the stack was registered under ("" before super())
    env,          \* constructor-local constants bound so far: name -> construct id
    stack,        \* the constructs declared so far, in declaration order, references resolved
    synthCount,   \* how many times app.synth() ran
    synthesized,  \* the description handed to the engine (<<>> before synth)
    created       \* the resources the engine has created so far

vars == <<variant, ip, pc, stackId, env, stack, synthCount, synthesized, created>>

Variants == {"main", "part"}

(***************************************************************************)
(* Property values as written in the source.                               *)
(***************************************************************************)

\* const region = "europe-west2";
region == "europe-west2"

\* a string literal
S(path, v) == [path |-> path, kind |-> "lit", lt |-> "string", val |-> v, var |-> "", attr |-> ""]
\* a boolean literal
B(path, v) == [path |-> path, kind |-> "lit", lt |-> "boolean", val |-> v, var |-> "", attr |-> ""]
\* a number literal
N(path, v) == [path |-> path, kind |-> "lit", lt |-> "number", val |-> v, var |-> "", attr |-> ""]
\* a back-reference  <var>.<attr>
R(path, v, a) == [path |-> path, kind |-> "ref", lt |-> "", val |-> "", var |-> v, attr |-> a]

\* new <type>(this, <id>, { props }), bound to `const <var>` ("" when not bound)
New(var, type, id, props) == [var |-> var, type |-> type, id |-> id, props |-> props]

AcceptUrl == "https://www.googleapis.com/compute/v1/projects/PROJECT-B/global/networks/default"

(***************************************************************************)
(* The declarations of the StackA constructor of src/main.ts, in order.    *)
(***************************************************************************)
MainTs ==
  << New("", "GoogleProvider", "google",
         {S("project", "project-a"), S("region", region)}),
     New("network", "ComputeNetwork", "network-a",
         {S("name", "network-a"), B("autoCreateSubnetworks", "false")}),
     New("subnetApp", "ComputeSubnetwork", "app-subnet",
         {S("name", "app-subnet"), R("network", "network", "name"), S("region", region),
          S("ipCidrRange", "10.0.0.0/24"), S("purpose", "PRIVATE")}),
     New("", "ComputeSubnetwork", "proxy-subnet",
         {S("name", "proxy-subnet"), R("network", "network", "name"), S("region", region),
          S("ipCidrRange", "10.0.1.0/24"), S("purpose", "REGIONAL_MANAGED_PROXY"),
          S("role", "ACTIVE")}),
     New("subnetPSC", "ComputeSubnetwork", "psc-subnet",
         {S("name", "psc-subnet"), R("network", "network", "name"), S("region", region),
          S("ipCidrRange", "10.0.2.0/24"), S("purpose", "PRIVATE_SERVICE_CONNECT")}),
     New("service", "CloudRunV2Service", "service",
         {S("name", "service"), S("location", region), B("deletionProtection", "false"),
          S("ingress", "INGRESS_TRAFFIC_INTERNAL_ONLY"),
          S("template.containers[0].image", "us-docker.pkg.dev/cloudrun/container/hello")}),
     New("", "CloudRunV2ServiceIamMember", "invoker",
         {R("name", "service", "name"), S("location", region),
          S("role", "roles/run.invoker"), S("member", "allUsers")}),
     New("loadbalancerAddress", "ComputeAddress", "loadbalancer-address",
         {S("name", "loadbalancer-address"), S("region", region),
          R("subnetwork", "subnetApp", "name"), S("addressType", "INTERNAL"),
          S("address", "10.0.0.10"), S("ipVersion", "IPV4")}),
     New("networkEndpointGroup", "ComputeRegionNetworkEndpointGroup", "network-endpoint-group",
         {S("name", "network-endpoint-group"), S("region", region),
          S("networkEndpointType", "SERVERLESS"), R("cloudRun.service", "service", "name")}),
     New("backendService", "ComputeRegionBackendService", "backend-service",
         {S("name", "backend-service"), S("loadBalancingScheme", "INTERNAL_MANAGED"),
          S("region", region), S("protocol", "HTTPS"),
          R("backend[0].group", "networkEndpointGroup", "id")}),
     New("loadbalancer", "ComputeRegionUrlMap", "loadbalancer",
         {S("name", "loadbalancer"), S("region", region),
          R("defaultService", "backendService", "id")}),
     New("httpProxy", "ComputeRegionTargetHttpProxy", "http-proxy",
         {S("name", "http-proxy"), S("region", region), R("urlMap", "loadbalancer", "id")}),
     New("forwardingRule", "ComputeForwardingRule", "forwarding-rule",
         {S("name", "forwarding-rule"), S("region", region), S("ipProtocol", "TCP"),
          S("loadBalancingScheme", "INTERNAL_MANAGED"), S("portRange", "80"),
          R("target", "httpProxy", "id"), R("network", "network", "name"),
          R("subnetwork", "subnetApp", "name"), R("ipAddress", "loadbalancerAddress", "id"),
          S("networkTier", "PREMIUM")}),
     New("serviceAttachment", "ComputeServiceAttachment", "psc-service-attachment",
         {S("name", "psc-service-attachment"), S("region", region),
          R("targetService", "forwardingRule", "id"),
          S("connectionPreference", "ACCEPT_MANUAL"), R("natSubnets[0]", "subnetPSC", "id"),
          B("enableProxyProtocol", "false"),
          S("consumerAcceptLists[0].networkUrl", AcceptUrl),
          N("consumerAcceptLists[0].connectionLimit", "10")}),
     New("consumerIP", "ComputeAddress", "consumer-ip",
         {S("name", "consumer-ip"), S("region", region), S("subnetwork", "default"),
          S("addressType", "INTERNAL"), S("address", "10.154.0.5"), S("ipVersion", "IPV4"),
          S("project", "PROJECT-B")}),
     New("", "ComputeForwardingRule", "forwarding-rule-psc",
         {S("name", "psc-forwarding-rule"), S("region", region), S("network", "default"),
          S("subnetwork", "default"), R("target", "serviceAttachment", "id"),
          S("project", "PROJECT-B"), S("loadBalancingScheme", ""),
          R("ipAddress", "consumerIP", "id")}) >>

(***************************************************************************)
(* The declarations of the StackA constructor of src/unnamed/part_000.     *)
(***************************************************************************)
Part000 ==
  << New("", "GoogleProvider", "google",
         {S("project", "PROJECT-A"), S("region", region)}),
     New("network", "ComputeNetwork", "network-a",
         {S("name", "network-a"), B("autoCreateSubnetworks", "false")}),
     New("subnetApp", "ComputeSubnetwork", "subnet-app",
         {S("name", "subnet-app"), R("network", "network", "name"), S("region", region),
          S("ipCidrRange", "10.0.0.0/24"), S("purpose", "PRIVATE")}),
     New("", "ComputeSubnetwork", "subnet-proxy",
         {S("name", "subnet-proxy"), R("network", "network", "name"), S("region", region),
          S("ipCidrRange", "10.0.1.0/24"), S("purpose", "REGIONAL_MANAGED_PROXY"),
          S("role", "ACTIVE")}),
     New("subnetPSC", "ComputeSubnetwork", "subnet-psc",
         {S("name", "subnet-psc"), R("network", "network", "name"), S("region", region),
          S("ipCidrRange", "10.0.2.0/24"), S("purpose", "PRIVATE_SERVICE_CONNECT")}),
     New("service", "CloudRunV2Service", "service",
         {S("name", "service"), S("location", region), B("deletionProtection", "false"),
          S("ingress", "INGRESS_TRAFFIC_INTERNAL_ONLY"),
          S("template.containers[0].image", "us-docker.pkg.dev/cloudrun/container/hello")}),
     New("", "CloudRunV2ServiceIamMember", "invoker",
         {R("name", "service", "name"), S("location", region),
          S("role", "roles/run.invoker"), S("member", "allUsers")}),
     New("", "ComputeAddress", "loadbalancer-address",
         {S("name", "loadbalancer-address"), S("region", region),
          R("subnetwork", "subnetApp", "name"), S("addressType", "INTERNAL"),
          S("address", "10.0.0.10"), S("ipVersion", "IPV4")}),
     New("networkEndpointGroup", "ComputeRegionNetworkEndpointGroup", "network-endpoint-group",
         {S("name", "network-endpoint-group"), S("region", region),
          S("networkEndpointType", "SERVERLESS"), R("cloudRun.service", "service", "name")}),
     New("backendService", "ComputeRegionBackendService", "backend-service",
         {S("name", "backend-service"), S("loadBalancingScheme", "INTERNAL_MANAGED"),
          S("region", region), S("protocol", "HTTPS"),
          R("backend[0].group", "networkEndpointGroup", "id")}),
     New("urlMap", "ComputeRegionUrlMap", "url-map",
         {S("name", "url-map"), S("region", region),
          R("defaultService", "backendService", "id")}),
     New("httpProxy", "ComputeRegionTargetHttpProxy", "http-proxy",
         {S("name", "http-proxy"), S("region", region), R("urlMap", "urlMap", "id")}),
     New("forwardingRule", "ComputeForwardingRule", "forwarding-rule",
         {S("name", "forwarding-rule"), S("region", region), S("ipProtocol", "TCP"),
          S("loadBalancingScheme", "INTERNAL_MANAGED"), S("portRange", "80"),
          R("target", "httpProxy", "id"), R("network", "network", "name"),
          R("subnetwork", "subnetApp", "name"), S("networkTier", "PREMIUM")}),
     New("computeService", "ComputeServiceAttachment", "psc-service-attachment",
         {S("name", "psc-service-attachment"), S("region", region),
          R("targetService", "forwardingRule", "id"),
          S("connectionPreference", "ACCEPT_MANUAL"), R("natSubnets[0]", "subnetPSC", "id"),
          B("enableProxyProtocol", "false"),
          S("consumerAcceptLists[0].networkUrl", AcceptUrl),
          N("consumerAcceptLists[0].connectionLimit", "10")}),
     New("consumerIP", "ComputeAddress", "consumer-ip",
         {S("name", "consumer-ip"), S("region", region), S("subnetwork", "default"),
          S("addressType", "INTERNAL"), S("address", "10.154.0.5"), S("ipVersion", "IPV4"),
          S("project", "PROJECT-B")}),
     New("", "ComputeForwardingRule", "forwarding-rule-psc",
         {S("name", "psc-forwarding-rule"), S("region", region), S("network", "default"),
          S("subnetwork", "default"), R("target", "computeService", "id"),
          S("project", "PROJECT-B"), S("loadBalancingScheme", ""),
          R("ipAddress", "consumerIP", "id")}) >>

\* The source file of a variant.
SourceFile(v) == IF v = "main" THEN MainTs ELSE Part000

\* prog with property p of its k-th declaration set to p
PatchAt(prog, k, p) ==
    [i \in DOMAIN prog |->
        IF i = k
        THEN [prog[i] EXCEPT !.props = {q \in @ : q.path # p.path} \cup {p}]
        ELSE prog[i]]

\* Mutation: the app subnet is declared before the network it references.
ProgramUseBeforeBind(v) ==
    [i \in DOMAIN SourceFile(v) |->
        IF i = 2 THEN SourceFile(v)[3] ELSE IF i = 3 THEN SourceFile(v)[2] ELSE SourceFile(v)[i]]

\* Mutation: the service attachment names its target by a literal, not by forwardingRule.id.
ProgramLiteralTarget(v) == PatchAt(SourceFile(v), 14, S("targetService", "forwarding-rule"))

\* Mutation: the load balancer address is declared for the consumer project.
ProgramAddressInB(v) == PatchAt(SourceFile(v), 8, S("project", "PROJECT-B"))

\* Mutation: the consumer forwarding rule is declared in another network.
ProgramConsumerOtherNet(v) == PatchAt(SourceFile(v), 16, S("network", "network-a"))

\* Mutation: the load balancer address is taken from the proxy subnet's range.
ProgramAddressInProxyRange(v) == PatchAt(SourceFile(v), 8, S("address", "10.0.1.10"))

\* Mutation: the proxy subnet is given the app subnet's name.
ProgramCopiedName(v) ==
    PatchAt(SourceFile(v), 4, CHOOSE q \in SourceFile(v)[3].props : q.path = "name")

\* The constructor body of the variant that runs.
Program(v) == SourceFile(v)

\* Mutation: synth is called before the stack is built.
MainStatementsSynthFirst == <<"newApp", "synth", "newStack">>

\* The top-level statements after the class: new App(); new StackA(app, "lab"); app.synth();
MainStatements == <<"newApp", "newStack", "synth">>

(***************************************************************************)
(* Helpers over declarations.                                              *)
(***************************************************************************)

HasProp(c, path) == \E p \in c.props : p.path = path
Prop(c, path) == CHOOSE p \in c.props : p.path = path

\* Mutation: a back-reference to .id is rewritten to .selfLink.
ResolveRewrites(p, e) ==
    IF p.kind = "ref"
    THEN [path |-> p.path, kind |-> "ref", lt |-> "", val |-> "",
          target |-> IF p.var \in DOMAIN e THEN e[p.var] ELSE "undefined",
          attr |-> IF p.attr = "id" THEN "selfLink" ELSE p.attr]
    ELSE [path |-> p.path, kind |-> "lit", lt |-> p.lt, val |-> p.val,
          target |-> "", attr |-> ""]

\* Evaluating a property value at declaration time: a literal is passed through,
\* <var>.<attr> becomes a token naming the construct bound to <var> and the attribute.
Resolve(p, e) ==
    IF p.kind = "ref"
    THEN [path |-> p.path, kind |-> "ref", lt |-> "", val |-> "",
          target |-> IF p.var \in DOMAIN e THEN e[p.var] ELSE "undefined",
          attr |-> p.attr]
    ELSE [path |-> p.path, kind |-> "lit", lt |-> p.lt, val |-> p.val,
          target |-> "", attr |-> ""]

\* The construct a declaration adds to the stack.
Declared(d, e) == [id |-> d.id, type |-> d.type, props |-> {Resolve(p, e) : p \in d.props}]

\* const <var> = new ...: the constant is bound to the construct.
Bind(d, e) == IF d.var # "" THEN (d.var :> d.id) @@ e ELSE e

Constructs(st) == {st[i] : i \in DOMAIN st}
Resources(st) == {c \in Constructs(st) : c.type # "GoogleProvider"}
Ids(st) == {c.id : c \in Constructs(st)}
ResourceIds(st) == {c.id : c \in Resources(st)}
ById(st, id) == CHOOSE c \in Constructs(st) : c.id = id

\* The construct ids a construct's properties reference.
RefTargets(c) == {p.target : p \in {q \in c.props : q.kind = "ref"}}

\* The reference edges of a description: <<from, property, to, attribute>>.
Edges(st) ==
    UNION {{<<c.id, p.path, p.target, p.attr>> : p \in {q \in c.props : q.kind = "ref"}}
           : c \in Constructs(st)}

\* The statement about to run.
Stmt == IF ip <= Len(MainStatements) THEN MainStatements[ip] ELSE "exit"

(***************************************************************************)
(* The program.                                                            *)
(***************************************************************************)

Init ==
    /\ variant \in Variants
    /\ ip = 1
    /\ pc = 0
    /\ stackId = ""
    /\ env = <<>>
    /\ stack = <<>>
    /\ synthCount = 0
    /\ synthesized = <<>>
    /\ created = {}

\* const app = new App();
NewApp ==
    /\ Stmt = "newApp"
    /\ ip' = ip + 1
    /\ UNCHANGED <<variant, pc, stackId, env, stack, synthCount, synthesized, created>>

\* new StackA(app, "lab") enters the constructor: super(scope, id);
SuperCall ==
    /\ Stmt = "newStack"
    /\ pc = 0
    /\ stackId' = "lab"
    /\ pc' = 1
    /\ UNCHANGED <<variant, ip, env, stack, synthCount, synthesized, created>>

\* The next `new X(this, id, {...})` of the constructor body.
Declare ==
    /\ Stmt = "newStack"
    /\ pc \in 1..Len(Program(variant))
    /\ LET d == Program(variant)[pc] IN
         /\ stack' = Append(stack, Declared(d, env))
         /\ env' = Bind(d, env)
    /\ pc' = pc + 1
    /\ UNCHANGED <<variant, ip, stackId, synthCount, synthesized, created>>

\* The constructor returns.
Return ==
    /\ Stmt = "newStack"
    /\ pc = Len(Program(variant)) + 1
    /\ ip' = ip + 1
    /\ UNCHANGED <<variant, pc, stackId, env, stack, synthCount, synthesized, created>>

\* app.synth(): the description is handed to the engine.
Synth ==
    /\ Stmt = "synth"
    /\ synthesized' = stack
    /\ synthCount' = synthCount + 1
    /\ ip' = ip + 1
    /\ UNCHANGED <<variant, pc, stackId, env, stack, created>>

\* The engine creates resource r of the description: only after every resource it references.
Apply(r) ==
    /\ Stmt = "exit"
    /\ r \in ResourceIds(synthesized)
    /\ r \notin created
    /\ RefTargets(ById(synthesized, r)) \subseteq created
    /\ created' = created \cup {r}
    /\ UNCHANGED <<variant, ip, pc, stackId, env, stack, synthCount, synthesized>>

AllIds == {MainTs[i].id : i \in DOMAIN MainTs} \cup {Part000[i].id : i \in DOMAIN Part000}

Next ==
    \/ NewApp
    \/ SuperCall
    \/ Declare
    \/ Return
    \/ Synth
    \/ \E r \in AllIds : Apply(r)

Spec == Init /\ [][Next]_vars

(***************************************************************************)
(* Derived notions.                                                        *)
(***************************************************************************)

\* The constructor has declared everything.
ConstructorDone == pc = Len(Program(variant)) + 1

\* The ids of the resources of a type in a description.
OfType(st, type) == {c.id : c \in {x \in Resources(st) : x.type = type}}

\* The ids reachable from id by following references, in at most n steps.
RECURSIVE ReachableIn(_, _, _)
ReachableIn(st, from, n) ==
    IF n = 0 THEN {}
    ELSE LET direct == UNION {RefTargets(c) : c \in {x \in Constructs(st) : x.id \in from}}
         IN  direct \cup ReachableIn(st, direct, n - 1)

Acyclic(st) == \A c \in Constructs(st) : c.id \notin ReachableIn(st, {c.id}, Len(st))

\* The engine can create some resource that is not created yet.
CanApply == \E r \in ResourceIds(synthesized) \ created :
                RefTargets(ById(synthesized, r)) \subseteq created

(***************************************************************************)
(* C1: every back-reference of a declared construct points to a resource   *)
(* declared earlier in the same constructor, so no reference is dangling,  *)
(* the reference graph is acyclic, and the engine can always go on until   *)
(* every resource is created after all resources it references.            *)
(***************************************************************************)
C1_RefsPointEarlier ==
    /\ \A i \in DOMAIN stack : \A t \in RefTargets(stack[i]) :
          \E j \in 1..(i - 1) : stack[j].id = t /\ stack[j].type # "GoogleProvider"
    /\ \A e \in Edges(stack) : e[3] \in ResourceIds(stack) /\ e[4] \in {"name", "id"}
    /\ Acyclic(stack)
    /\ (Stmt = "exit" /\ created # ResourceIds(synthesized)) => CanApply

\* An apply order has run to its end: all fifteen resources are created.
C1_Witness ==
    /\ Stmt = "exit"
    /\ Cardinality(created) = 15
    /\ created = ResourceIds(stack)
    /\ Edges(stack) # {}

(***************************************************************************)
(* C2: in every apply order the creations happen in the order service,     *)
(* network-endpoint-group, backend-service, region URL map, http-proxy,    *)
(* forwarding-rule, psc-service-attachment, forwarding-rule-psc; the       *)
(* consumer forwarding rule is never created before the Cloud Run service  *)
(* or the service attachment.                                              *)
(***************************************************************************)
UrlMapId == CHOOSE id \in OfType(synthesized, "ComputeRegionUrlMap") : TRUE

CreationChain ==
    <<"service", "network-endpoint-group", "backend-service", UrlMapId, "http-proxy",
      "forwarding-rule", "psc-service-attachment", "forwarding-rule-psc">>

C2_ChainOrder ==
    created # {} =>
        /\ \A k \in 1..(Len(CreationChain) - 1) :
              CreationChain[k + 1] \in created => CreationChain[k] \in created
        /\ "forwarding-rule-psc" \in created =>
              {"service", "psc-service-attachment"} \subseteq created

\* The last resource of the chain has been created.
C2_Witness ==
    /\ "forwarding-rule-psc" \in created
    /\ \A k \in 1..Len(CreationChain) : CreationChain[k] \in created

(***************************************************************************)
(* C6: in every apply order the subnetwork with purpose                    *)
(* REGIONAL_MANAGED_PROXY is created before the producer forwarding rule   *)
(* 'forwarding-rule' of the load balancer.                                 *)
(***************************************************************************)
ProxySubnetIds(st) ==
    {c.id : c \in {x \in Resources(st) :
        /\ x.type = "ComputeSubnetwork"
        /\ HasProp(x, "purpose")
        /\ Prop(x, "purpose").val = "REGIONAL_MANAGED_PROXY"}}

C6_ProxySubnetBeforeForwardingRule ==
    "forwarding-rule" \in created =>
        /\ ProxySubnetIds(synthesized) # {}
        /\ ProxySubnetIds(synthesized) \subseteq created

(***************************************************************************)
(* Projects and names.                                                     *)
(***************************************************************************)

\* new GoogleProvider(this, "google", { project, region }): the default project.
DefaultProject(st) ==
    LET provs == {c \in Constructs(st) : c.type = "GoogleProvider"}
    IN  IF provs = {} THEN "" ELSE Prop(CHOOSE c \in provs : TRUE, "project").val

\* The project a resource is created in: its own `project`, else the provider's.
ProjectOf(st, c) ==
    IF HasProp(c, "project") THEN Prop(c, "project").val ELSE DefaultProject(st)

\* The resources that set `project` themselves.
SetsProject(st) == {c \in Resources(st) : HasProp(c, "project")}

\* The reference edges whose two ends are created in different projects.
CrossProjectEdges(st) ==
    {e \in Edges(st) :
        /\ e[3] \in Ids(st)
        /\ ProjectOf(st, ById(st, e[1])) # ProjectOf(st, ById(st, e[3]))}

\* The `name` a resource gets: a literal, or the name of the resource <var>.name refers to.
RECURSIVE NameOf(_, _)
NameOf(st, c) ==
    IF ~HasProp(c, "name") THEN ""
    ELSE LET p == Prop(c, "name") IN
         IF p.kind = "lit" THEN p.val
         ELSE IF p.target \in Ids(st) /\ p.target # c.id /\ p.attr = "name"
              THEN NameOf(st, ById(st, p.target))
              ELSE ""

(***************************************************************************)
(* C3: once the constructor has run, exactly 'consumer-ip' and             *)
(* 'forwarding-rule-psc' set project, to "PROJECT-B"; every other resource *)
(* is in the provider's default project; the only reference between the    *)
(* two projects, in either direction, is                                   *)
(* forwarding-rule-psc.target = psc-service-attachment.id.                 *)
(***************************************************************************)
C3_OnlyPscCrossesProjects ==
    ConstructorDone =>
        /\ {c.id : c \in SetsProject(stack)} = {"consumer-ip", "forwarding-rule-psc"}
        /\ \A c \in SetsProject(stack) :
              Prop(c, "project").kind = "lit" /\ Prop(c, "project").val = "PROJECT-B"
        /\ DefaultProject(stack) # "PROJECT-B"
        /\ \A c \in Resources(stack) \ SetsProject(stack) :
              ProjectOf(stack, c) = DefaultProject(stack)
        /\ CrossProjectEdges(stack) =
              {<<"forwarding-rule-psc", "target", "psc-service-attachment", "id">>}

\* The constructor has run and the consumer forwarding rule targets the attachment.
C3_Witness ==
    /\ ConstructorDone
    /\ Cardinality(SetsProject(stack)) = 2
    /\ <<"forwarding-rule-psc", "target", "psc-service-attachment", "id">> \in Edges(stack)
    /\ \E e \in Edges(stack) :
          ProjectOf(stack, ById(stack, e[1])) = "PROJECT-B"
          /\ ProjectOf(stack, ById(stack, e[3])) = "PROJECT-B"

(***************************************************************************)
(* C4: app.synth() is called exactly once, after the provider and all 15   *)
(* resources of stack 'lab' have been declared, and nothing is added to or *)
(* changed in the stack after synth is called.                             *)
(***************************************************************************)
SynthOnComplete ==
    /\ synthCount <= 1
    /\ Stmt = "exit" => synthCount = 1
    /\ synthCount = 1 =>
          /\ stackId = "lab"
          /\ Len(stack) = 16
          /\ Cardinality(ResourceIds(stack)) = 15
          /\ \E c \in Constructs(stack) : c.type = "GoogleProvider" /\ c.id = "google"
          /\ synthesized = stack

C4_SynthOnceWhenComplete ==
    /\ []SynthOnComplete
    /\ [][synthCount >= 1 => (stack' = stack /\ synthesized' = synthesized
                              /\ synthCount' = synthCount)]_vars
    /\ [][synthCount' # synthCount => (synthCount' = synthCount + 1 /\ ConstructorDone)]_vars

\* synth has been called and the engine has started on the description.
C4_Witness == synthCount = 1 /\ Stmt = "exit" /\ created # {} /\ Len(synthesized) = 16

(***************************************************************************)
(* C5: every property of every declared resource carries the value written *)
(* in the source: a literal is passed through unchanged, a back-reference  *)
(* stays a reference to the .name or .id of the resource the constant was  *)
(* bound to; the description handed to the engine equals what was declared.*)
(***************************************************************************)
\* The declarations before the k-th that bind constant v.
Binders(prog, k, v) == {j \in 1..(k - 1) : prog[j].var = v}

PassedThrough(prog, k, c) ==
    /\ c.id = prog[k].id
    /\ c.type = prog[k].type
    /\ {q.path : q \in c.props} = {p.path : p \in prog[k].props}
    /\ \A p \in prog[k].props : \E q \in c.props :
          /\ q.path = p.path
          /\ q.kind = p.kind
          /\ p.kind = "lit" => (q.val = p.val /\ q.lt = p.lt)
          /\ p.kind = "ref" =>
                /\ q.attr = p.attr
                /\ q.attr \in {"name", "id"}
                /\ Cardinality(Binders(prog, k, p.var)) = 1
                /\ \A j \in Binders(prog, k, p.var) : q.target = prog[j].id

C10_UniqueIdentities ==
    /\ \A i, j \in DOMAIN stack : stack[i].id = stack[j].id => i = j
    /\ \A c, d \in Resources(stack) :
          (/\ c.type = d.type
           /\ ProjectOf(stack, c) = ProjectOf(stack, d)
           /\ NameOf(stack, c) = NameOf(stack, d)) => c = d
    /\ \A c \in Resources(stack) : NameOf(stack, c) # ""
    /\ ConstructorDone =>
          /\ {NameOf(stack, ById(stack, id)) : id \in OfType(stack, "ComputeForwardingRule")}
                = {"forwarding-rule", "psc-forwarding-rule"}
          /\ {NameOf(stack, ById(stack, id)) : id \in OfType(stack, "ComputeAddress")}
                = {"loadbalancer-address", "consumer-ip"}

\* Everything is declared: two forwarding rules, two addresses, three subnetworks.
C10_Witness ==
    /\ ConstructorDone
    /\ Cardinality(OfType(stack, "ComputeForwardingRule")) = 2
    /\ Cardinality(OfType(stack, "ComputeAddress")) = 2
    /\ Cardinality(OfType(stack, "ComputeSubnetwork")) = 3
    /\ NameOf(stack, ById(stack, "invoker")) = "service"

(***************************************************************************)
(* Reading the string literals: URLs, addresses, ranges, numbers.          *)
(***************************************************************************)

\* The pieces of s between the occurrences of the one-character separator sep.
RECURSIVE Split(_, _)
Split(s, sep) ==
    LET at == {k \in 1..Len(s) : SubSeq(s, k, k) = sep} IN
    IF at = {} THEN <<s>>
    ELSE LET k == CHOOSE x \in at : \A y \in at : x <= y
         IN  <<SubSeq(s, 1, k - 1)>> \o Split(SubSeq(s, k + 1, Len(s)), sep)

DigitValue(c) ==
    CASE c = "0" -> 0 [] c = "1" -> 1 [] c = "2" -> 2 [] c = "3" -> 3 [] c = "4" -> 4
      [] c = "5" -> 5 [] c = "6" -> 6 [] c = "7" -> 7 [] c = "8" -> 8 [] c = "9" -> 9
      [] OTHER -> -1

\* The number a decimal string denotes; -1 when it is not a decimal string.
RECURSIVE ParseNumber(_)
ParseNumber(s) ==
    IF Len(s) = 0 THEN -1
    ELSE LET d == DigitValue(SubSeq(s, Len(s), Len(s))) IN
         IF d < 0 THEN -1
         ELSE IF Len(s) = 1 THEN d
         ELSE LET rest == ParseNumber(SubSeq(s, 1, Len(s) - 1))
              IN  IF rest < 0 THEN -1 ELSE rest * 10 + d

\* The 32-bit value of a dotted quad; -1 when s is not one.
ParseIp(s) ==
    LET o == Split(s, ".") IN
    IF Len(o) = 4 /\ \A k \in 1..4 : ParseNumber(o[k]) \in 0..255
    THEN ((ParseNumber(o[1]) * 256 + ParseNumber(o[2])) * 256 + ParseNumber(o[3])) * 256
         + ParseNumber(o[4])
    ELSE -1

\* The first and last address of a range a.b.c.d/len (prefix lengths 8..32).
ParseCidr(s) ==
    LET parts == Split(s, "/")
        base  == IF Len(parts) = 2 THEN ParseIp(parts[1]) ELSE -1
        len   == IF Len(parts) = 2 THEN ParseNumber(parts[2]) ELSE -1
    IN  IF base >= 0 /\ len \in 8..32
        THEN LET size == 2 ^ (32 - len)
                 lo   == base - (base % size)
             IN  [ok |-> TRUE, lo |-> lo, hi |-> lo + size - 1]
        ELSE [ok |-> FALSE, lo |-> 0, hi |-> -1]

InRange(a, r) == r.ok /\ a >= 0 /\ r.lo <= a /\ a <= r.hi
Disjoint(r1, r2) == r1.ok /\ r2.ok /\ (r1.hi < r2.lo \/ r2.hi < r1.lo)

\* The piece of a resource URL that follows the piece `key` ("" when there is none).
UrlPart(s, key) ==
    LET seg == Split(s, "/")
        at  == {k \in 1..(Len(seg) - 1) : seg[k] = key}
    IN  IF at = {} THEN "" ELSE seg[(CHOOSE k \in at : \A j \in at : k <= j) + 1]

(***************************************************************************)
(* C7: once the constructor has run, the service attachment uses           *)
(* ACCEPT_MANUAL with an accept list of exactly one entry, connectionLimit *)
(* 10, whose networkUrl names project PROJECT-B and network 'default'; the *)
(* one forwarding rule that targets the attachment, 'forwarding-rule-psc', *)
(* is declared in that project and network, within the connection limit.   *)
(***************************************************************************)
AttachmentPaths ==
    {"name", "region", "targetService", "connectionPreference", "natSubnets[0]",
     "enableProxyProtocol", "consumerAcceptLists[0].networkUrl",
     "consumerAcceptLists[0].connectionLimit"}

\* The forwarding rules whose target is the resource id.
ConsumersOf(st, id) ==
    {c \in Resources(st) :
        /\ c.type = "ComputeForwardingRule"
        /\ \E p \in c.props : p.path = "target" /\ p.kind = "ref" /\ p.target = id}

C7_ConsumerAccepted ==
    ConstructorDone =>
        /\ OfType(stack, "ComputeServiceAttachment") = {"psc-service-attachment"}
        /\ LET sa    == ById(stack, "psc-service-attachment")
               url   == Prop(sa, "consumerAcceptLists[0].networkUrl").val
               limit == ParseNumber(Prop(sa, "consumerAcceptLists[0].connectionLimit").val)
               cons  == ConsumersOf(stack, sa.id)
           IN  /\ {p.path : p \in sa.props} = AttachmentPaths
               /\ Prop(sa, "connectionPreference").val = "ACCEPT_MANUAL"
               /\ limit = 10
               /\ UrlPart(url, "projects") = "PROJECT-B"
               /\ UrlPart(url, "networks") = "default"
               /\ {c.id : c \in cons} = {"forwarding-rule-psc"}
               /\ \A c \in cons :
                     /\ ProjectOf(stack, c) = UrlPart(url, "projects")
                     /\ HasProp(c, "network")
                     /\ Prop(c, "network").kind = "lit"
                     /\ Prop(c, "network").val = UrlPart(url, "networks")
               /\ Cardinality(cons) <= limit

\* The attachment and the consumer forwarding rule that targets it are declared.
C7_Witness ==
    /\ ConstructorDone
    /\ ConsumersOf(stack, "psc-service-attachment") # {}
    /\ Len(Split(AcceptUrl, "/")) = 10

(***************************************************************************)
(* C9: the subnetworks of network-a are 10.0.0.0/24, 10.0.1.0/24 and       *)
(* 10.0.2.0/24, pairwise disjoint; an address declared with a subnetwork   *)
(* of network-a lies in that subnetwork's range and in no other (the load  *)
(* balancer address 10.0.0.10 in the app subnet only); the consumer        *)
(* address 10.154.0.5 lies in none of the three ranges.                    *)
(***************************************************************************)
Subnets(st) == {c \in Resources(st) : c.type = "ComputeSubnetwork"}
Addresses(st) == {c \in Resources(st) : c.type = "ComputeAddress"}
RangeOf(c) == ParseCidr(Prop(c, "ipCidrRange").val)
AddressOf(c) == ParseIp(Prop(c, "address").val)

C9_RangesDisjointAddressesInside ==
    /\ \A s1, s2 \in Subnets(stack) : s1 # s2 => Disjoint(RangeOf(s1), RangeOf(s2))
    /\ \A s \in Subnets(stack) :
          <<s.id, "network", "network-a", "name">> \in Edges(stack) /\ RangeOf(s).ok
    /\ \A a \in Addresses(stack) : \A s \in Subnets(stack) :
          InRange(AddressOf(a), RangeOf(s)) <=>
              <<a.id, "subnetwork", s.id, "name">> \in Edges(stack)
    /\ \A a \in Addresses(stack) : AddressOf(a) >= 0
    /\ ConstructorDone =>
          /\ {Prop(s, "ipCidrRange").val : s \in Subnets(stack)}
                = {"10.0.0.0/24", "10.0.1.0/24", "10.0.2.0/24"}
          /\ \E a \in Addresses(stack) :
                /\ Prop(a, "address").val = "10.0.0.10"
                /\ \E s \in Subnets(stack) :
                      /\ Prop(s, "purpose").val = "PRIVATE"
                      /\ <<a.id, "subnetwork", s.id, "name">> \in Edges(stack)
          /\ \E a \in Addresses(stack) :
                /\ Prop(a, "address").val = "10.154.0.5"
                /\ a.id = "consumer-ip"
                /\ \A s \in Subnets(stack) : ~InRange(AddressOf(a), RangeOf(s))

\* All subnetworks and addresses are declared; 10.0.0.10 is read as an address in 10.0.0.0/24.
C9_Witness ==
    /\ ConstructorDone
    /\ Cardinality(Subnets(stack)) = 3
    /\ Cardinality(Addresses(stack)) = 2
    /\ ParseIp("10.0.0.10") = 167772170
    /\ ParseCidr("10.0.0.0/24") = [ok |-> TRUE, lo |-> 167772160, hi |-> 167772415]

(***************************************************************************)
(* C8: under the renaming app-subnet<->subnet-app, proxy-subnet<->         *)
(* subnet-proxy, psc-subnet<->subnet-psc, loadbalancer<->url-map the two   *)
(* variants declare the same resources with the same types and the same    *)
(* reference edges, and in both every ComputeAddress is referenced by      *)
(* exactly one ComputeForwardingRule through ipAddress.                    *)
(***************************************************************************)
OtherVariant(v) == IF v = "main" THEN "part" ELSE "main"

\* What the constructor body leaves after its first k declarations.
RECURSIVE Elaborate(_, _)
Elaborate(prog, k) ==
    IF k = 0 THEN [stack |-> <<>>, env |-> <<>>]
    ELSE LET prev == Elaborate(prog, k - 1) IN
         [stack |-> Append(prev.stack, Declared(prog[k], prev.env)),
          env   |-> Bind(prog[k], prev.env)]

Canon(id) ==
    CASE id = "subnet-app" -> "app-subnet"
      [] id = "subnet-proxy" -> "proxy-subnet"
      [] id = "subnet-psc" -> "psc-subnet"
      [] id = "url-map" -> "loadbalancer"
      [] OTHER -> id

CanonNodes(st) == {<<Canon(c.id), c.type>> : c \in Constructs(st)}
CanonEdges(st) == {<<Canon(e[1]), e[2], Canon(e[3]), e[4]>> : e \in Edges(st)}

\* The forwarding rules that reference address id through ipAddress.
IpAddressUsers(st, id) ==
    {c \in Resources(st) :
        /\ c.type = "ComputeForwardingRule"
        /\ \E p \in c.props : p.path = "ipAddress" /\ p.kind = "ref" /\ p.target = id}

C8_SameReferenceGraph ==
    ConstructorDone =>
        LET other == Elaborate(Program(OtherVariant(variant)),
                               Len(Program(OtherVariant(variant)))).stack
        IN  /\ CanonNodes(stack) = CanonNodes(other)
            /\ CanonEdges(stack) = CanonEdges(other)
            /\ \A a \in OfType(stack, "ComputeAddress") :
                  Cardinality(IpAddressUsers(stack, a)) = 1

====
